---- MODULE Spec2Model ----
(***************************************************************************)
(* Model of the Learning Path generator (src/utils.py, src/app.py).        *)
(*                                                                         *)
(*   SpecPlaylist  create_learning_playlist: the four searches, the        *)
(*                 deduplication loop, the phases and the daily schedule   *)
(*   SpecCommit    the daily video count inferred from the commitment text *)
(*   SpecWrap      _render_wrapped_text and _split_token_to_fit            *)
(*   SpecMain      main: playlist, notes, PDF and the email step           *)
(*   SpecPdf       create_pdf_from_text: the title, the loop over the body *)
(*                 lines with its retry at a smaller font, the output      *)
(*                                                                         *)
(* Python strings that the code searches (background, commitment) are      *)
(* sequences of one-character strings, so that lower() and the `in` test   *)
(* are computed and not assumed.                                           *)
(***************************************************************************)
EXTENDS Integers, Sequences, FiniteSets, TLC

VARIABLES
    pc,             \* position inside create_learning_playlist
    background,     \* parameter background (sequence of characters)
    commitment,     \* parameter commitment (sequence of characters)
    query,          \* index of the next entry of search_queries to be searched
    issued,         \* the calls VideosSearch(query, limit=...) of utils.py:55
    all_videos,     \* utils.py:106
    unique_videos,  \* utils.py:112
    playlist,       \* the returned playlist_structure, Null before the return
    cpc,            \* SpecCommit: position of the commitment parse
    daily_videos,   \* SpecCommit: the value of daily_videos after utils.py:156-166
    wpc,            \* position inside _render_wrapped_text
    text,           \* parameter text (sequence of characters)
    font_size,      \* parameter font_size
    available_width, \* parameter available_width
    words,          \* utils.py:380
    widx,           \* index in words of the word the loop at utils.py:383 takes next
    current_line,   \* utils.py:381
    out,            \* the texts handed to pdf.multi_cell so far, in order
    mpc,            \* position inside main
    topic,          \* app.py:112
    email,          \* app.py:113
    env,            \* os.environ: TRUE for a key with a non-empty value
    playlist_data,  \* app.py:127-134, <<>> for None
    ai_outcome,     \* what became of the AI collaborator in generate_learning_notes
    notes,          \* app.py:138, the sections of the document body in order
    missing,        \* app.py:158 and 162
    reported,       \* the key names printed at app.py:160, <<>> before
    send_report,    \* the message of app.py:218-222, "none" before
    smtp_attempted, \* whether an SMTP connection was opened, utils.py:484/490
    crash,          \* the call whose exception left main unhandled, "none" if none
    pdf_report,     \* the message of app.py:150 or 152, "none" before
    ppc,            \* position inside create_pdf_from_text
    body,           \* body_text.splitlines(), utils.py:408
    lidx,           \* index in body of the line the loop at utils.py:408 is at
    attempts,       \* the calls of _render_wrapped_text at utils.py:415/419
    attempt_start,  \* Len(out) when the running call of the wrapper began
    left_behind,    \* indices in out of the cells of calls that raised
    warnings,       \* the lines reported at utils.py:422, by index
    failure         \* the step whose exception left create_pdf_from_text

plVars == <<pc, background, query, issued, all_videos, unique_videos,
            playlist>>
cmVars == <<cpc, daily_videos>>
wrVars == <<wpc, text, font_size, available_width, words, widx, current_line,
            out>>
mnVars == <<mpc, topic, email, env, playlist_data, ai_outcome, notes, missing,
            reported, send_report, smtp_attempted, crash, pdf_report>>
pdVars == <<ppc, body, lidx, attempts, attempt_start, left_behind, warnings,
            failure>>
vars == <<plVars, commitment, cmVars, wrVars, mnVars, pdVars>>
\* what create_learning_playlist leaves alone
plOther == <<cmVars, wrVars, mnVars, pdVars>>

Null == "None"

----------------------------------------------------------------------------
(* Bounds of the model *)

\* the most results one search call hands back (the code takes every entry of
\* results["result"], it never truncates to max_results)
MaxResults == 4
\* the most raw items, over all four searches, that repeat an earlier URL
MaxDups == 1
\* the most words of a commitment text in SpecCommit
MaxWords == 2
\* the most characters of a line of text in SpecWrap
MaxTextLen == 6
\* the most videos the searches of one run of main find
MaxMainVideos == 2
\* the most lines of a document body in SpecPdf
MaxBodyLines == 2

----------------------------------------------------------------------------
(* Python helpers *)

Max(a, b) == IF a >= b THEN a ELSE b
Min(a, b) == IF a <= b THEN a ELSE b

\* s[a:b] with 0-based, clipped bounds
Slice(s, a, b) == SubSeq(s, a + 1, Min(b, Len(s)))
\* s[a:]
SliceFrom(s, a) == SubSeq(s, a + 1, Len(s))

\* str.lower() on one character (the letters the model's texts use)
LowerChar(c) ==
    CASE c = "A" -> "a" [] c = "B" -> "b" [] c = "E" -> "e" [] c = "H" -> "h"
      [] c = "I" -> "i" [] c = "N" -> "n" [] c = "O" -> "o" [] c = "R" -> "r"
      [] c = "T" -> "t" [] c = "U" -> "u" [] c = "W" -> "w"
      [] OTHER -> c

\* str.lower()
Lower(s) == [i \in 1..Len(s) |-> LowerChar(s[i])]

\* sub in s
Contains(s, sub) ==
    \E i \in 0..(Len(s) - Len(sub)) : SubSeq(s, i + 1, i + Len(sub)) = sub

\* the literals the code searches for
S_beginner == <<"b","e","g","i","n","n","e","r">>
S_absolute == <<"a","b","s","o","l","u","t","e">>
S_intermediate == <<"i","n","t","e","r","m","e","d","i","a","t","e">>
S_hour == <<"h","o","u","r">>
S_one == <<"o","n","e">>
S_two == <<"t","w","o">>
S_three == <<"t","h","r","e","e">>

----------------------------------------------------------------------------
(* generate_daily_schedule *)

\* utils.py:155-166
DailyVideos(c) ==
    IF Contains(Lower(c), S_hour)
    THEN IF Contains(c, <<"1">>) \/ Contains(c, S_one) THEN 1
         ELSE IF Contains(c, <<"2">>) \/ Contains(c, S_two) THEN 2
         ELSE IF Contains(c, <<"3">>) \/ Contains(c, S_three) THEN 3
         ELSE 2
    ELSE 2

\* the entry appended at utils.py:177-181
ScheduleEntry(v) == [title |-> v.title, url |-> v.url, duration |-> v.duration]

\* the inner loop, utils.py:175-182: returns <<day_videos, video_index>>
RECURSIVE DayLoop(_, _, _, _)
DayLoop(videos, left, day_vids, video_index) ==
    IF left = 0 THEN <<day_vids, video_index>>
    ELSE IF video_index < Len(videos)
         THEN DayLoop(videos, left - 1,
                      Append(day_vids, ScheduleEntry(videos[video_index + 1])),
                      video_index + 1)
         ELSE DayLoop(videos, left - 1, day_vids, video_index)

\* the key f"day_{day}"
DayKey(day) == <<"day", day>>

\* the outer loop, utils.py:173-188; estimated_time counts half hours
RECURSIVE ScheduleLoop(_, _, _, _, _, _)
ScheduleLoop(videos, daily, day, days_needed, video_index, schedule) ==
    IF day > days_needed THEN schedule
    ELSE LET r == DayLoop(videos, daily, <<>>, video_index)
             entry == [videos |-> r[1], estimated_time |-> Len(r[1]),
                       focus |-> Len(r[1])]
         IN ScheduleLoop(videos, daily, day + 1, days_needed, r[2],
                         schedule @@ (DayKey(day) :> entry))

\* mutants of DaysNeeded: rounding up, and no floor of one day
DaysNeededCeil(total_videos, daily) ==
    Max(1, (total_videos + daily - 1) \div daily)
DaysNeededNoFloor(total_videos, daily) == total_videos \div daily

\* utils.py:168
DaysNeeded(total_videos, daily) == Max(1, total_videos \div daily)

\* utils.py:151-190
GenerateDailySchedule(videos, c) ==
    LET daily == DailyVideos(c)
    IN ScheduleLoop(videos, daily, 1, DaysNeeded(Len(videos), daily), 0, <<>>)

----------------------------------------------------------------------------
(* create_learning_playlist *)

\* utils.py:115, the cap on retained videos
MaxUnique == 15

\* utils.py:80-103
Difficulty(b) ==
    IF Contains(Lower(b), S_beginner) \/ Contains(Lower(b), S_absolute)
    THEN "beginner"
    ELSE IF Contains(Lower(b), S_intermediate) THEN "intermediate"
    ELSE "advanced"

\* utils.py:82-103, the four templates of each difficulty, without the topic
SearchQueries(d) ==
    IF d = "beginner"
    THEN <<"tutorial for beginners", "basics explained", "introduction course",
           "fundamentals">>
    ELSE IF d = "intermediate"
    THEN <<"intermediate tutorial", "advanced concepts", "practical examples",
           "real world applications">>
    ELSE <<"advanced tutorial", "expert level", "advanced concepts",
           "professional development">>

\* utils.py:114-117, the loop from item i on
RECURSIVE DedupLoop(_, _, _, _)
DedupLoop(all, i, unique, seen_urls) ==
    IF i > Len(all) THEN unique
    ELSE IF all[i].url \notin seen_urls /\ Len(unique) < MaxUnique
         THEN DedupLoop(all, i + 1, Append(unique, all[i]),
                        seen_urls \cup {all[i].url})
         ELSE DedupLoop(all, i + 1, unique, seen_urls)

\* mutant of Dedup: the cap counts the raw items examined
DedupCapOnRaw(all) ==
    DedupLoop(SubSeq(all, 1, Min(MaxUnique, Len(all))), 1, <<>>, {})

\* utils.py:112-117
Dedup(all) == DedupLoop(all, 1, <<>>, {})

\* utils.py:131
Phase1(u) == IF Len(u) >= 5 THEN Slice(u, 0, 5) ELSE u
\* mutant of Phase2: the slice ends one item early
Phase2Short(u) ==
    IF Len(u) >= 10 THEN Slice(u, 5, 9)
    ELSE IF Len(u) > 5 THEN SliceFrom(u, 5) ELSE <<>>
\* utils.py:136
Phase2(u) ==
    IF Len(u) >= 10 THEN Slice(u, 5, 10)
    ELSE IF Len(u) > 5 THEN SliceFrom(u, 5) ELSE <<>>
\* utils.py:141
Phase3(u) == IF Len(u) > 10 THEN SliceFrom(u, 10) ELSE <<>>

\* utils.py:120-146; estimated_hours counts half hours
PlaylistStructure(t, b, c, u) ==
    [topic |-> t,
     difficulty |-> Difficulty(b),
     background |-> b,
     commitment |-> c,
     total_videos |-> Len(u),
     estimated_hours |-> Len(u),
     phases |-> [phase_1 |-> [name |-> "Foundation", videos |-> Phase1(u)],
                 phase_2 |-> [name |-> "Core Learning", videos |-> Phase2(u)],
                 phase_3 |-> [name |-> "Advanced Application",
                              videos |-> Phase3(u)]],
     daily_schedule |-> GenerateDailySchedule(u, c),
     search_queries |-> SearchQueries(Difficulty(b))]

----------------------------------------------------------------------------
(* The inputs of SpecPlaylist *)

\* the calls the model makes: one per difficulty and per daily video count
\* (the difficulty is only copied to the result and names the queries, and the
\* commitment is only read by the schedule, so they are not crossed)
Calls ==
    {<<<<"A","b","s","o","l","u","t","e">>, <<"1"," ","h","o","u","r">>>>,
     <<<<"i","n","t","e","r","m","e","d","i","a","t","e">>,
       <<"2"," ","H","o","u","r","s">>>>,
     <<<<"p","r","o">>, <<"3"," ","h","o","u","r","s">>>>}

\* URLs are compared for equality only: a URL not met before is named by the
\* next unused number.  The title is the serial number of the raw item, so
\* two items with one URL stay distinguishable.
UrlsOf(s) == {s[i].url : i \in 1..Len(s)}
NumDups(s) == Len(s) - Cardinality(UrlsOf(s))

\* utils.py:61-68, the video_info of one search result
VideoInfo(u, serial) ==
    [title |-> serial, url |-> u, duration |-> "10:00", channel |-> "ch"]

\* utils.py:56-71 and 109: all_videos extended by the k items one search hands
\* back, `sofar` holding n distinct URLs and d repeats; each item has a new
\* URL or, while the model's bound allows, a URL met before
RECURSIVE ExtendedBy(_, _, _, _)
ExtendedBy(sofar, n, d, k) ==
    IF k = 0 THEN all_videos' = sofar
    ELSE \/ ExtendedBy(Append(sofar, VideoInfo(n + 1, Len(sofar) + 1)),
                       n + 1, d, k - 1)
         \/ /\ d < MaxDups
            /\ \E u \in 1..n :
                  ExtendedBy(Append(sofar, VideoInfo(u, Len(sofar) + 1)),
                             n, d + 1, k - 1)

----------------------------------------------------------------------------
(* SpecPlaylist *)

InitCommit ==
    /\ cpc = "idle"
    /\ daily_videos = 0

InitWrap ==
    /\ wpc = "idle"
    /\ text = <<>>
    /\ font_size = 12
    /\ available_width = 0
    /\ words = <<>>
    /\ widx = 1
    /\ current_line = <<>>
    /\ out = <<>>

\* the keys of os.environ the program reads as text
RequiredKeys == <<"EMAIL_FROM", "SMTP_HOST", "SMTP_USERNAME", "SMTP_PASSWORD">>
EnvKeys == {RequiredKeys[i] : i \in 1..Len(RequiredKeys)} \cup {"GEMINI_API_KEY"}

InitPdf ==
    /\ ppc = "idle"
    /\ body = <<>>
    /\ lidx = 1
    /\ attempts = <<>>
    /\ attempt_start = 0
    /\ left_behind = {}
    /\ warnings = <<>>
    /\ failure = "none"

InitMain ==
    /\ InitPdf
    /\ mpc = "idle"
    /\ email = ""
    /\ env = [k \in EnvKeys |-> FALSE]
    /\ playlist_data = <<>>
    /\ ai_outcome = "none"
    /\ notes = <<>>
    /\ missing = <<>>
    /\ reported = <<>>
    /\ send_report = "none"
    /\ smtp_attempted = FALSE
    /\ crash = "none"
    /\ pdf_report = "none"

InitPlaylist ==
    /\ pc = "search"
    /\ \E call \in Calls : background = call[1] /\ commitment = call[2]
    /\ query = 1
    /\ issued = <<>>
    /\ all_videos = <<>>
    /\ unique_videos = <<>>
    /\ playlist = Null
    /\ topic = "Python"
    /\ InitCommit
    /\ InitWrap
    /\ InitMain

\* utils.py:108 and 55: the call for entry number q of search_queries
SearchCall(q) ==
    [query |-> <<topic, SearchQueries(Difficulty(background))[q]>>,
     max_results |-> 3]

\* utils.py:107-109 with search_youtube_videos returning its list, utils.py:71
SearchOk ==
    /\ pc = "search"
    /\ query <= 4
    /\ issued' = Append(issued, SearchCall(query))
    /\ \E k \in 0..MaxResults :
         ExtendedBy(all_videos, Cardinality(UrlsOf(all_videos)),
                    NumDups(all_videos), k)
    /\ query' = query + 1
    /\ UNCHANGED <<pc, background, commitment, unique_videos, playlist,
                   plOther>>

\* utils.py:54-70 raising: the search call, or the reading of its results
SearchRaises ==
    /\ pc = "search"
    /\ query <= 4
    /\ issued' = Append(issued, SearchCall(query))
    /\ pc' = "except"
    /\ UNCHANGED <<background, commitment, query, all_videos, unique_videos,
                   playlist, plOther>>

\* utils.py:72-74 and 109 with the empty list: every item lost
SearchFailedLosesAll ==
    /\ pc = "except"
    /\ all_videos' = <<>>
    /\ pc' = "search"
    /\ query' = query + 1
    /\ UNCHANGED <<background, commitment, issued, unique_videos, playlist,
                   plOther>>

\* utils.py:72-74, and utils.py:109 extending all_videos by the empty list
SearchFailed ==
    /\ pc = "except"
    /\ all_videos' = all_videos \o <<>>
    /\ pc' = "search"
    /\ query' = query + 1
    /\ UNCHANGED <<background, commitment, issued, unique_videos, playlist,
                   plOther>>

\* utils.py:111-117
Deduplicate ==
    /\ pc = "search"
    /\ query = 5
    /\ unique_videos' = Dedup(all_videos)
    /\ pc' = "assemble"
    /\ UNCHANGED <<background, commitment, query, issued, all_videos, playlist,
                   plOther>>

\* utils.py:119-148
Assemble ==
    /\ pc = "assemble"
    /\ playlist' = PlaylistStructure(topic, background, commitment,
                                    unique_videos)
    /\ pc' = "done"
    /\ UNCHANGED <<background, commitment, query, issued, all_videos,
                   unique_videos, plOther>>

NextPlaylist ==
    \/ SearchOk
    \/ SearchRaises
    \/ SearchFailed
    \/ Deduplicate
    \/ Assemble

SpecPlaylist == InitPlaylist /\ [][NextPlaylist]_vars

----------------------------------------------------------------------------
(* Claims about create_learning_playlist and generate_daily_schedule *)

returned == pc = "done"

\* the items among the first i of a list that are the first with their URL
RECURSIVE FirstOccurrences(_, _)
FirstOccurrences(all, i) ==
    IF i = 0 THEN <<>>
    ELSE IF \E j \in 1..(i - 1) : all[j].url = all[i].url
         THEN FirstOccurrences(all, i - 1)
         ELSE Append(FirstOccurrences(all, i - 1), all[i])

\* the claim's result for one raw list and the list the code made of it
FirstOccurrencesCapped(F, unique) ==
    /\ unique = SubSeq(F, 1, Min(15, Len(F)))
    /\ Len(unique) <= 15
    /\ \A i, j \in 1..Len(unique) : i # j => unique[i].url # unique[j].url

\* C1: the deduplication loop yields exactly the first min(15, number of
\* distinct URLs) first occurrences of the raw list, in their order: every URL
\* at most once, never more than 15 items, and a repeat of an admitted URL
\* never uses up the cap.
DedupKeepsFirstOccurrences ==
    pc \in {"assemble", "done"} =>
        FirstOccurrencesCapped(FirstOccurrences(all_videos, Len(all_videos)),
                               unique_videos)

\* a raw list that repeats a URL and still fills the cap with 15 distinct URLs
DedupWitness ==
    /\ returned
    /\ NumDups(all_videos) >= 1
    /\ Len(all_videos) > 15
    /\ Len(unique_videos) = 15

\* C2: phase_1, phase_2 and phase_3 are the slices [0:5), [5:10) and [10:15)
\* of the deduplicated list, their concatenation is that list, and
\* total_videos is the sum of their lengths.
PhasesPartitionUnique ==
    returned =>
        LET u == unique_videos
            n == Len(u)
            p1 == playlist.phases.phase_1.videos
            p2 == playlist.phases.phase_2.videos
            p3 == playlist.phases.phase_3.videos
        IN /\ n <= 15
           /\ p1 = SubSeq(u, 1, Min(5, n))
           /\ p2 = SubSeq(u, 6, Min(10, n))
           /\ p3 = SubSeq(u, 11, Min(15, n))
           /\ p1 \o p2 \o p3 = u
           /\ playlist.total_videos = Len(p1) + Len(p2) + Len(p3)

\* a playlist whose three phases all hold videos, the last one not full
PhasesWitness ==
    /\ returned
    /\ Len(unique_videos) = 13
    /\ Len(playlist.phases.phase_3.videos) = 3

\* the number of videos on days 1..k of a schedule
RECURSIVE Scheduled(_, _)
Scheduled(schedule, k) ==
    IF k = 0 THEN 0
    ELSE Len(schedule[DayKey(k)].videos) + Scheduled(schedule, k - 1)

\* C3: the schedule has exactly max(1, n // d) days day_1..day_k, day j holds
\* the videos at indices [(j-1)*d, j*d) that exist, in order, min(n, k*d)
\* videos are scheduled, and the videos from index k*d on are on no day.
ScheduleShape ==
    returned =>
        LET v == unique_videos
            n == Len(v)
            d == DailyVideos(commitment)
            k == Max(1, n \div d)
            schedule == playlist.daily_schedule
        IN /\ d \in {1, 2, 3}
           /\ DOMAIN schedule = {DayKey(j) : j \in 1..k}
           /\ \A j \in 1..k :
                  schedule[DayKey(j)].videos =
                      [i \in 1..(Min(j * d, n) - Min((j - 1) * d, n)) |->
                          [title |-> v[(j - 1) * d + i].title,
                           url |-> v[(j - 1) * d + i].url,
                           duration |-> v[(j - 1) * d + i].duration]]
           /\ Scheduled(schedule, k) = Min(n, k * d)
           /\ \A i \in (k * d + 1)..n : \A j \in 1..k :
                  \A e \in 1..Len(schedule[DayKey(j)].videos) :
                      schedule[DayKey(j)].videos[e].url # v[i].url

\* 7 videos at 2 a day: 3 days of 2 videos, the 7th video on no day
ScheduleWitness ==
    /\ returned
    /\ Len(unique_videos) = 7
    /\ DailyVideos(commitment) = 2
    /\ DOMAIN playlist.daily_schedule = {DayKey(1), DayKey(2), DayKey(3)}
    /\ \A j \in 1..3 : Len(playlist.daily_schedule[DayKey(j)].videos) = 2

\* C9: when no search returns a video, the playlist is still complete:
\* total_videos is 0, the three named phases are there and empty, and the
\* schedule is the single day day_1 with no video.
EmptySearchStillBuildsPlaylist ==
    (returned /\ all_videos = <<>>) =>
        /\ playlist.total_videos = 0
        /\ DOMAIN playlist.phases = {"phase_1", "phase_2", "phase_3"}
        /\ playlist.phases.phase_1 = [name |-> "Foundation", videos |-> <<>>]
        /\ playlist.phases.phase_2 = [name |-> "Core Learning", videos |-> <<>>]
        /\ playlist.phases.phase_3 =
               [name |-> "Advanced Application", videos |-> <<>>]
        /\ DOMAIN playlist.daily_schedule = {DayKey(1)}
        /\ playlist.daily_schedule[DayKey(1)].videos = <<>>

\* a returned playlist after four searches without a result
EmptySearchWitness ==
    /\ returned
    /\ all_videos = <<>>
    /\ playlist.total_videos = 0

----------------------------------------------------------------------------
(* SpecCommit: the commitment texts and the parse of utils.py:155-166 *)

Vocabulary ==
    {<<"1">>, <<"2">>, <<"3">>,
     <<"o","n","e">>, <<"O","n","e">>, <<"T","W","O">>,
     <<"t","h","r","e","e">>,
     <<"h","o","u","r">>, <<"H","O","U","R","S">>,
     <<"a">>}

\* the texts of at most n words of the vocabulary, separated by one space
RECURSIVE TextsOf(_)
TextsOf(n) ==
    IF n = 0 THEN {<<>>}
    ELSE LET shorter == TextsOf(n - 1)
         IN shorter \cup Vocabulary
              \cup {t \o <<" ">> \o w : t \in shorter \ {<<>>}, w \in Vocabulary}

InitCommitText ==
    /\ pc = "idle"
    /\ background = <<>>
    /\ query = 1
    /\ issued = <<>>
    /\ all_videos = <<>>
    /\ unique_videos = <<>>
    /\ playlist = Null
    /\ commitment \in TextsOf(MaxWords)
    /\ cpc = "start"
    /\ daily_videos = 0
    /\ InitWrap
    /\ topic = "Python"
    /\ InitMain

\* utils.py:155-166
ParseCommitment ==
    /\ cpc = "start"
    /\ daily_videos' = DailyVideos(commitment)
    /\ cpc' = "parsed"
    /\ UNCHANGED <<plVars, commitment, wrVars, mnVars, pdVars>>

NextCommit == ParseCommitment

SpecCommit == InitCommitText /\ [][NextCommit]_vars

\* the count the claim gives a commitment text: every search ignores case
ClaimedDailyVideos(c) ==
    LET l == Lower(c)
    IN IF ~Contains(l, S_hour) THEN 2
       ELSE IF Contains(l, <<"1">>) \/ Contains(l, S_one) THEN 1
       ELSE IF Contains(l, <<"2">>) \/ Contains(l, S_two) THEN 2
       ELSE IF Contains(l, <<"3">>) \/ Contains(l, S_three) THEN 3
       ELSE 2

\* C4: the daily video count is found by a case-insensitive search for
\* "1"/"one", then "2"/"two", then "3"/"three", the first match winning, and is
\* 2 when none occurs or "hour" does not occur.  (Read with the absence of
\* "hour" deciding first, as in the code.)
DailyCountIgnoresCase ==
    cpc = "parsed" => daily_videos = ClaimedDailyVideos(commitment)

----------------------------------------------------------------------------
(* _render_wrapped_text and _split_token_to_fit, utils.py:361-406 *)

\* the width of one character in Helvetica, in units of the narrowest letter
CharUnits(c) == IF c = "m" THEN 2 ELSE 1

RECURSIVE Units(_)
Units(s) == IF s = <<>> THEN 0 ELSE CharUnits(Head(s)) + Units(Tail(s))

\* pdf.get_string_width at a font size: the characters' widths, scaled
StringWidth(s, size) == size * Units(s)

\* text.split(' ')
RECURSIVE Split(_)
Split(s) ==
    IF \A i \in 1..Len(s) : s[i] # " " THEN <<s>>
    ELSE LET i == CHOOSE i \in 1..Len(s) :
                      s[i] = " " /\ \A j \in 1..(i - 1) : s[j] # " "
         IN <<SubSeq(s, 1, i - 1)>> \o Split(SubSeq(s, i + 1, Len(s)))

\* ' '.join(tokens)
RECURSIVE Join(_)
Join(tokens) ==
    IF tokens = <<>> THEN <<>>
    ELSE IF Len(tokens) = 1 THEN tokens[1]
    ELSE tokens[1] \o <<" ">> \o Join(Tail(tokens))

\* utils.py:366-371, the loop from character i on
RECURSIVE SplitLoop(_, _, _, _, _, _)
SplitLoop(token, i, chunks, current_chunk, size, width) ==
    IF i > Len(token)
    THEN \* utils.py:373-375
         IF current_chunk # <<>> THEN Append(chunks, current_chunk) ELSE chunks
    ELSE IF StringWidth(Append(current_chunk, token[i]), size) < width
         THEN SplitLoop(token, i + 1, chunks, Append(current_chunk, token[i]),
                        size, width)
         ELSE SplitLoop(token, i + 1, Append(chunks, current_chunk),
                        <<token[i]>>, size, width)

\* utils.py:361-375
SplitTokenToFit(token, size, width) == SplitLoop(token, 1, <<>>, <<>>, size, width)

\* utils.py:385, the test that sends a word to _split_token_to_fit
TooLong(word, size, width) == StringWidth(word, size) > width

\* utils.py:397, the test that keeps a word on the current line
Fits(line, size, width) == StringWidth(line, size) < width

\* one call of pdf.multi_cell: the text, and the word a chunk was cut from
\* (0 for a line of whole words)
Cell(t, w) == [text |-> t, word |-> w]

\* the calls of utils.py:392-394 for the chunks of word number w
Cells(chunks, w) == [i \in 1..Len(chunks) |-> Cell(chunks[i], w)]

\* the lines create_pdf_from_text hands to the wrapper: utils.py:408-412 skips
\* a line that is empty after strip()
RECURSIVE TextsUpTo(_)
TextsUpTo(n) ==
    IF n = 0 THEN {<<>>}
    ELSE LET shorter == TextsUpTo(n - 1)
         IN shorter \cup {Append(t, c) : t \in shorter, c \in {"i", "m", " "}}

Lines == {t \in TextsUpTo(MaxTextLen) : \E i \in 1..Len(t) : t[i] # " "}

\* the widths of the page, in the units of StringWidth at size 1
Widths == {12, 24, 30, 36, 48}

InitWrapText ==
    /\ pc = "idle"
    /\ background = <<>>
    /\ commitment = <<>>
    /\ query = 1
    /\ issued = <<>>
    /\ all_videos = <<>>
    /\ unique_videos = <<>>
    /\ playlist = Null
    /\ InitCommit
    /\ wpc = "words"
    /\ text \in Lines
    /\ font_size \in {12, 10}
    /\ available_width \in Widths
    /\ words = Split(text)
    /\ widx = 1
    /\ current_line = <<>>
    /\ out = <<>>
    /\ topic = "Python"
    /\ InitMain

\* utils.py:383-402, one pass of the loop over words
RenderWord ==
    /\ wpc = "words"
    /\ widx <= Len(words)
    /\ LET word == words[widx]
       IN IF TooLong(word, font_size, available_width)
          THEN /\ out' = out
                          \o (IF current_line # <<>>
                              THEN <<Cell(Join(current_line), 0)>> ELSE <<>>)
                          \o Cells(SplitTokenToFit(word, font_size,
                                                  available_width), widx)
               /\ current_line' = <<>>
          ELSE IF Fits(Join(Append(current_line, word)), font_size,
                       available_width)
               THEN /\ current_line' = Append(current_line, word)
                    /\ out' = out
               ELSE /\ out' = Append(out, Cell(Join(current_line), 0))
                    /\ current_line' = <<word>>
    /\ widx' = widx + 1
    /\ UNCHANGED <<plVars, commitment, cmVars, mnVars, pdVars, wpc, text,
                   font_size, available_width, words>>

\* utils.py:404-406
RenderRest ==
    /\ wpc = "words"
    /\ widx > Len(words)
    /\ out' = IF current_line # <<>>
              THEN Append(out, Cell(Join(current_line), 0)) ELSE out
    /\ wpc' = "done"
    /\ UNCHANGED <<plVars, commitment, cmVars, mnVars, pdVars, text, font_size,
                   available_width, words, widx, current_line>>

NextWrap == RenderWord \/ RenderRest

SpecWrap == InitWrapText /\ [][NextWrap]_vars

\* the width of the widest single character at a font size
WidestChar(size) == StringWidth(<<"m">>, size)

\* C5: when the available width is greater than the widest character, every
\* line handed to the document is strictly narrower than the available width;
\* a line or token exactly as wide as the available width is never emitted.
EveryLineNarrower ==
    available_width > WidestChar(font_size) =>
        \A i \in 1..Len(out) :
            StringWidth(out[i].text, font_size) < available_width

\* the tokens read back from the emitted cells: a line of whole words is split
\* on single spaces, the chunks of one word are put together again
RECURSIVE TokensOf(_, _)
TokensOf(cells, i) ==
    IF i > Len(cells) THEN <<>>
    ELSE IF cells[i].word = 0
         THEN Split(cells[i].text) \o TokensOf(cells, i + 1)
         ELSE IF i > 1 /\ cells[i - 1].word = cells[i].word
              THEN TokensOf(cells, i + 1)
              ELSE LET same == {j \in i..Len(cells) :
                                   \A h \in i..j : cells[h].word = cells[i].word}
                       chunkText[j \in i..Len(cells)] ==
                           IF j \in same
                           THEN cells[j].text \o
                                (IF j + 1 \in same THEN chunkText[j + 1] ELSE <<>>)
                           ELSE <<>>
                   IN <<chunkText[i]>> \o TokensOf(cells, i + 1)

\* C6: the emitted lines, split on single spaces and put in emission order,
\* are the input's tokens in order, none lost, added or reordered; a token
\* wider than the available width appears as consecutive chunks that spell it,
\* after every line accumulated before it.
TokensPreserved ==
    wpc = "done" => TokensOf(out, 1) = words

----------------------------------------------------------------------------
(* generate_learning_notes, utils.py:202-342 *)

\* response.text of the AI collaborator, utils.py:222-223
AiText == [part |-> "ai"]

\* mutant of Template: the commitment is not filled in
TemplateNoCommitment(t, b, c) ==
    [part |-> "template", topic |-> t, background |-> b, commitment |-> <<>>]

\* the fallback content, utils.py:228-290
Template(t, b, c) ==
    [part |-> "template", topic |-> t, background |-> b, commitment |-> c]

\* the playlist section, utils.py:294-340
CurriculumSection(pd) ==
    [part |-> "curriculum",
     topic |-> pd.topic,
     difficulty |-> pd.difficulty,
     total_videos |-> pd.total_videos,
     estimated_hours |-> pd.estimated_hours,
     phases |-> <<[name |-> pd.phases.phase_1.name,
                   videos |-> Len(pd.phases.phase_1.videos)],
                  [name |-> pd.phases.phase_2.name,
                   videos |-> Len(pd.phases.phase_2.videos)],
                  [name |-> pd.phases.phase_3.name,
                   videos |-> Len(pd.phases.phase_3.videos)]>>,
     daily_schedule |-> pd.daily_schedule,
     tips |-> "DAILY LEARNING TIPS",
     search_queries |-> pd.search_queries]

\* utils.py:227-342, the notes built after the AI collaborator was not used
FallbackNotes(t, b, c, pdata) ==
    <<Template(t, b, c)>>
        \o (IF pdata # <<>> THEN <<CurriculumSection(pdata[1])>> ELSE <<>>)

----------------------------------------------------------------------------
(* get_missing_smtp_env_keys, utils.py:437-441 *)

RECURSIVE MissingFrom(_, _, _)
MissingFrom(keys, i, e) ==
    IF i > Len(keys) THEN <<>>
    ELSE (IF ~e[keys[i]] THEN <<keys[i]>> ELSE <<>>) \o MissingFrom(keys, i + 1, e)

\* mutant of MissingKeys: the password is not required
MissingKeysNoPassword(e) == MissingFrom(SubSeq(RequiredKeys, 1, 3), 1, e)

MissingKeys(e) == MissingFrom(RequiredKeys, 1, e)

----------------------------------------------------------------------------
(* SpecMain: main, app.py:101-245 *)

Topics == {"Python", "Rust"}
\* what the user answers at app.py:113: nothing, a valid or an invalid address
EmailInputs == {"", "user@example.org", "not an address"}

InitMainRun ==
    /\ pc = "idle"
    /\ query = 1
    /\ issued = <<>>
    /\ all_videos = <<>>
    /\ unique_videos = <<>>
    /\ playlist = Null
    /\ \E call \in Calls : background = call[1] /\ commitment = call[2]
    /\ InitCommit
    /\ InitWrap
    /\ InitPdf
    /\ mpc = "validate"
    /\ topic \in Topics
    /\ email \in EmailInputs
    /\ env \in [EnvKeys -> BOOLEAN]
    /\ playlist_data = <<>>
    /\ ai_outcome = "none"
    /\ notes = <<>>
    /\ missing = <<>>
    /\ reported = <<>>
    /\ send_report = "none"
    /\ smtp_attempted = FALSE
    /\ crash = "none"
    /\ pdf_report = "none"

\* utils.py:23-29
ValidEmail(e) == e = "user@example.org"

\* app.py:115-117
ValidateEmail ==
    /\ mpc = "validate"
    /\ email' = IF email # "" /\ ~ValidEmail(email) THEN "" ELSE email
    /\ mpc' = "playlist"
    /\ UNCHANGED <<plVars, commitment, cmVars, wrVars, pdVars, pdf_report, topic, env, playlist_data,
                   ai_outcome, notes, missing, reported, send_report,
                   smtp_attempted, crash>>

\* app.py:127-134 with create_learning_playlist, utils.py:77-148, the searches
\* finding n videos
CreatePlaylist ==
    /\ mpc = "playlist"
    /\ \E n \in 0..MaxMainVideos :
         /\ all_videos' = [i \in 1..n |-> VideoInfo(i, i)]
         /\ unique_videos' = Dedup(all_videos')
         /\ playlist' = PlaylistStructure(topic, background, commitment,
                                          unique_videos')
         /\ playlist_data' = IF playlist'.total_videos > 0
                             THEN <<playlist'>> ELSE <<>>
    /\ mpc' = "notes"
    /\ UNCHANGED <<pc, background, query, issued, commitment, cmVars, wrVars,
                   pdVars, pdf_report, topic, email, env, ai_outcome, notes,
                   missing, reported, send_report, smtp_attempted, crash>>

\* utils.py:204 with build_ai_client, utils.py:193-199: no key, a client, or
\* an exception of the client library that nothing catches
BuildAiClient ==
    /\ mpc = "notes"
    /\ IF ~env["GEMINI_API_KEY"]
       THEN /\ ai_outcome' = "no_client"
            /\ mpc' = "fallback"
            /\ crash' = crash
       ELSE \/ /\ ai_outcome' = "client"
               /\ mpc' = "generate"
               /\ crash' = crash
            \/ /\ ai_outcome' = "no_client"
               /\ mpc' = "crashed"
               /\ crash' = "build_ai_client"
    /\ UNCHANGED <<plVars, commitment, cmVars, wrVars, pdVars, pdf_report, topic, email, env,
                   playlist_data, notes, missing, reported, send_report,
                   smtp_attempted>>

\* utils.py:206-223, generate_content succeeds and its text is returned
GenerateOk ==
    /\ mpc = "generate"
    /\ ai_outcome' = "ok"
    /\ notes' = <<AiText>>
    /\ mpc' = "pdf_name"
    /\ UNCHANGED <<plVars, commitment, cmVars, wrVars, pdVars, pdf_report, topic, email, env,
                   playlist_data, missing, reported, send_report,
                   smtp_attempted, crash>>

\* utils.py:224-225, generate_content or response.text raises
GenerateFailed ==
    /\ mpc = "generate"
    /\ ai_outcome' = "failed"
    /\ mpc' = "fallback"
    /\ UNCHANGED <<plVars, commitment, cmVars, wrVars, pdVars, pdf_report, topic, email, env,
                   playlist_data, notes, missing, reported, send_report,
                   smtp_attempted, crash>>

\* utils.py:227-342
Fallback ==
    /\ mpc = "fallback"
    /\ notes' = FallbackNotes(topic, background, commitment, playlist_data)
    /\ mpc' = "pdf_name"
    /\ UNCHANGED <<plVars, commitment, cmVars, wrVars, pdVars, pdf_report, topic, email, env,
                   playlist_data, ai_outcome, missing, reported, send_report,
                   smtp_attempted, crash>>

\* app.py:142 with build_pdf_filename, utils.py:428-434: os.makedirs may raise
BuildPdfFilename ==
    /\ mpc = "pdf_name"
    /\ \/ /\ mpc' = "pdf"
          /\ crash' = crash
       \/ /\ mpc' = "crashed"
          /\ crash' = "ensure_output_dir"
    /\ UNCHANGED <<plVars, commitment, cmVars, wrVars, pdVars, pdf_report, topic, email, env,
                   playlist_data, ai_outcome, notes, missing, reported,
                   send_report, smtp_attempted>>

\* app.py:144-153 without the return of app.py:153
CreatePdfNoReturn ==
    /\ mpc = "pdf"
    /\ \/ /\ pdf_report' = "created"
          /\ mpc' = "email"
       \/ /\ pdf_report' = "failed"
          /\ mpc' = "email"
    /\ UNCHANGED <<plVars, commitment, cmVars, wrVars, pdVars, topic, email, env,
                   playlist_data, ai_outcome, notes, missing, reported,
                   send_report, smtp_attempted, crash>>

\* app.py:144-153
CreatePdf ==
    /\ mpc = "pdf"
    /\ \/ /\ pdf_report' = "created"
          /\ mpc' = "email"
       \/ /\ pdf_report' = "failed"
          /\ mpc' = "halted"
    /\ UNCHANGED <<plVars, commitment, cmVars, wrVars, pdVars, topic, email, env,
                   playlist_data, ai_outcome, notes, missing, reported,
                   send_report, smtp_attempted, crash>>

\* app.py:156 and 223-224, no address
NoEmail ==
    /\ mpc = "email"
    /\ email = ""
    /\ mpc' = "summary"
    /\ UNCHANGED <<plVars, commitment, cmVars, wrVars, pdVars, pdf_report, topic, email, env,
                   playlist_data, ai_outcome, notes, missing, reported,
                   send_report, smtp_attempted, crash>>

\* app.py:156-160
CheckMissing ==
    /\ mpc = "email"
    /\ email # ""
    /\ missing' = MissingKeys(env)
    /\ IF missing' # <<>>
       THEN /\ reported' = missing'
            /\ mpc' = "configure"
       ELSE /\ reported' = reported
            /\ mpc' = "decide"
    /\ UNCHANGED <<plVars, commitment, cmVars, wrVars, pdVars, pdf_report, topic, email, env,
                   playlist_data, ai_outcome, notes, send_report,
                   smtp_attempted, crash>>

\* app.py:161 with configure_smtp_interactively returning False, app.py:31-32
ConfigureDeclined ==
    /\ mpc = "configure"
    /\ mpc' = "decide"
    /\ UNCHANGED <<plVars, commitment, cmVars, wrVars, pdVars, pdf_report, topic, email, env,
                   playlist_data, ai_outcome, notes, missing, reported,
                   send_report, smtp_attempted, crash>>

\* app.py:161-162 with configure_smtp_interactively, app.py:34-68: each answer
\* is stored as typed, empty or not
Configure ==
    /\ mpc = "configure"
    /\ \E typed \in [{RequiredKeys[i] : i \in 1..Len(RequiredKeys)} -> BOOLEAN] :
         env' = [k \in EnvKeys |->
                    IF k \in DOMAIN typed THEN typed[k] ELSE env[k]]
    /\ missing' = MissingKeys(env')
    /\ mpc' = "decide"
    /\ UNCHANGED <<plVars, commitment, cmVars, wrVars, pdVars, pdf_report, topic, email,
                   playlist_data, ai_outcome, notes, reported, send_report,
                   smtp_attempted, crash>>

\* app.py:164 false: nothing is sent
SkipSend ==
    /\ mpc = "decide"
    /\ missing # <<>>
    /\ mpc' = "summary"
    /\ UNCHANGED <<plVars, commitment, cmVars, wrVars, pdVars, pdf_report, topic, email, env,
                   playlist_data, ai_outcome, notes, missing, reported,
                   send_report, smtp_attempted, crash>>

\* app.py:164-222 with send_email_with_attachment, utils.py:444-502: the PDF
\* cannot be read, a numeric setting does not parse, a required key is
\* missing, the SMTP session fails, or the message is sent
SendEmail ==
    /\ mpc = "decide"
    /\ missing = <<>>
    /\ \/ /\ send_report' = "error"
          /\ smtp_attempted' = smtp_attempted
       \/ /\ MissingKeys(env) # <<>>
          /\ send_report' = "not_sent"
          /\ smtp_attempted' = smtp_attempted
       \/ /\ MissingKeys(env) = <<>>
          /\ send_report' \in {"not_sent", "sent"}
          /\ smtp_attempted' = TRUE
    /\ mpc' = "summary"
    /\ UNCHANGED <<plVars, commitment, cmVars, wrVars, pdVars, pdf_report, topic, email, env,
                   playlist_data, ai_outcome, notes, missing, reported, crash>>

\* app.py:226-245
Summary ==
    /\ mpc = "summary"
    /\ mpc' = "done"
    /\ UNCHANGED <<plVars, commitment, cmVars, wrVars, pdVars, pdf_report, topic, email, env,
                   playlist_data, ai_outcome, notes, missing, reported,
                   send_report, smtp_attempted, crash>>

NextMain ==
    \/ ValidateEmail \/ CreatePlaylist
    \/ BuildAiClient \/ GenerateOk \/ GenerateFailed \/ Fallback
    \/ BuildPdfFilename \/ CreatePdf
    \/ NoEmail \/ CheckMissing \/ ConfigureDeclined \/ Configure
    \/ SkipSend \/ SendEmail \/ Summary

SpecMain == InitMainRun /\ [][NextMain]_vars

----------------------------------------------------------------------------
(* Claims about generate_learning_notes and the email step *)

notesReturned == mpc \in {"pdf_name", "pdf", "email", "halted", "configure",
                          "decide", "summary", "done"}

\* C7: whenever playlist_data is not None, the returned body is the base
\* narrative (of the AI collaborator or of the fallback template) followed by
\* the curriculum section.
NotesCarryCurriculum ==
    (notesReturned /\ playlist_data # <<>>) =>
        /\ Len(notes) = 2
        /\ notes[1].part \in {"ai", "template"}
        /\ notes[2].part = "curriculum"
        /\ notes[2].daily_schedule = playlist_data[1].daily_schedule
        /\ notes[2].search_queries = playlist_data[1].search_queries

\* the base narrative: the sections of the notes that are not the curriculum
BaseNarrative == SelectSeq(notes, LAMBDA n : n.part # "curriculum")

\* C8: after a failed generation call the base narrative is exactly the
\* fallback template filled with topic, background and commitment; the base
\* narrative is always the collaborator's output alone or the template alone;
\* and the failure does not leave generate_learning_notes as an exception.
GenerationFailureFallsBack ==
    /\ (ai_outcome = "failed" /\ notesReturned) =>
           BaseNarrative = <<[part |-> "template", topic |-> topic,
                              background |-> background,
                              commitment |-> commitment]>>
    /\ notesReturned =>
           \/ BaseNarrative = <<[part |-> "ai"]>> /\ ai_outcome = "ok"
           \/ BaseNarrative = <<[part |-> "template", topic |-> topic,
                                 background |-> background,
                                 commitment |-> commitment]>>
    /\ (ai_outcome = "failed" /\ mpc = "crashed") => crash = "ensure_output_dir"

\* a run whose generation call failed and whose notes were returned
GenerationFailureWitness ==
    /\ ai_outcome = "failed"
    /\ mpc = "pdf"
    /\ Len(notes) = 2
    /\ notes[1].part = "template"

\* the required settings without a value, in the order of required_keys
StillMissing == SelectSeq(RequiredKeys, LAMBDA k : ~env[k])

\* C10: with a recipient address and a required setting still missing after
\* the optional configuration step, no SMTP connection or send is attempted,
\* the list main holds is exactly the missing setting names, the missing names
\* were printed (exactly those missing at the time) and no generic failure is.
MissingSettingsNeverSend ==
    /\ (email # "" /\ mpc \in {"decide", "summary", "done"}
           /\ StillMissing # <<>>) =>
           /\ ~smtp_attempted
           /\ missing = StillMissing
           /\ reported # <<>>
           /\ send_report = "none"
    /\ mpc = "configure" => reported = StillMissing
    /\ smtp_attempted => StillMissing = <<>>

\* a run that configured SMTP, still misses a setting and ends without sending
MissingSettingsWitness ==
    /\ mpc = "done"
    /\ email # ""
    /\ StillMissing # <<>>
    /\ StillMissing # reported
    /\ ~smtp_attempted

----------------------------------------------------------------------------
(* C11: order of PDF creation and the email step *)

\* the run is at, or has been through, some part of the email step: the test
\* of app.py:156, the missing-settings check, the interactive configuration,
\* the reading of the PDF or the send
EmailStepEntered ==
    \/ mpc \in {"email", "configure", "decide"}
    \/ missing # <<>>
    \/ reported # <<>>
    \/ send_report # "none"
    \/ smtp_attempted

\* C11: the email step is entered only after create_pdf_from_text returned
\* normally; when PDF creation fails the failure is reported and the run is
\* halted, with no part of the email step behind it, no send attempted and
\* no further step to take.
EmailOnlyAfterPdf ==
    /\ EmailStepEntered => pdf_report = "created"
    /\ mpc \in {"summary", "done"} => pdf_report = "created"
    /\ pdf_report = "failed" =>
          /\ mpc = "halted"
          /\ ~EmailStepEntered
          /\ ~ENABLED NextMain

\* a run with a usable address and every SMTP setting present that halted on
\* a PDF failure
HaltedBeforeEmailWitness ==
    /\ mpc = "halted"
    /\ pdf_report = "failed"
    /\ ValidEmail(email)
    /\ MissingKeys(env) = <<>>

----------------------------------------------------------------------------
(* C12: failures of the external steps stay inside main *)

\* C12: whatever external steps fail, main ends by completing or at its halt
\* after a failed PDF creation: no exception leaves main unhandled, at any
\* point of any run.
NoFailureEscapesMain ==
    /\ mpc # "crashed"
    /\ crash = "none"
    /\ ~ENABLED NextMain => mpc \in {"done", "halted"}

----------------------------------------------------------------------------
(* SpecPdf: create_pdf_from_text, utils.py:345-425 *)

\* the lines of a document body: an empty line, a line of one space, a line
\* of one word and two lines of two words
BodyTexts ==
    {<<>>, <<" ">>, <<"i">>, <<"i", " ", "i">>, <<"m", " ", "i">>}

RECURSIVE BodiesUpTo(_)
BodiesUpTo(n) ==
    IF n = 0 THEN {<<>>}
    ELSE LET shorter == BodiesUpTo(n - 1)
         IN shorter \cup {Append(b, t) : b \in shorter, t \in BodyTexts}

\* utils.py:359, in the units of StringWidth at size 1
PageWidths == {36, 48}

\* line.strip() of utils.py:410 is empty
Blank(line) == \A i \in 1..Len(line) : line[i] = " "

\* one call of _render_wrapped_text: the line, the font size, and how the call
\* ended ("running" until it has)
Attempt(l, size) == [line |-> l, size |-> size, result |-> "running"]

\* the record of the running call closed with its result
Closed(result) ==
    [attempts EXCEPT ![Len(attempts)].result = result]

InitPdfRun ==
    /\ pc = "idle"
    /\ background = <<>>
    /\ commitment = <<>>
    /\ query = 1
    /\ issued = <<>>
    /\ all_videos = <<>>
    /\ unique_videos = <<>>
    /\ playlist = Null
    /\ InitCommit
    /\ wpc = "idle"
    /\ text = <<>>
    /\ font_size = 12
    /\ available_width \in PageWidths
    /\ words = <<>>
    /\ widx = 1
    /\ current_line = <<>>
    /\ out = <<>>
    /\ topic = "Python"
    /\ mpc = "idle"
    /\ email = ""
    /\ env = [k \in EnvKeys |-> FALSE]
    /\ playlist_data = <<>>
    /\ ai_outcome = "none"
    /\ notes = <<>>
    /\ missing = <<>>
    /\ reported = <<>>
    /\ send_report = "none"
    /\ smtp_attempted = FALSE
    /\ crash = "none"
    /\ pdf_report = "none"
    /\ ppc = "title"
    /\ body \in BodiesUpTo(MaxBodyLines)
    /\ lidx = 1
    /\ attempts = <<>>
    /\ attempt_start = 0
    /\ left_behind = {}
    /\ warnings = <<>>
    /\ failure = "none"

\* utils.py:347-359: the title is laid out by pdf.multi_cell outside any try
RenderTitle ==
    /\ ppc = "title"
    /\ \/ /\ ppc' = "lines"
          /\ failure' = failure
       \/ /\ ppc' = "failed"
          /\ failure' = "title"
    /\ UNCHANGED <<plVars, commitment, cmVars, wrVars, mnVars, body, lidx,
                   attempts, attempt_start, left_behind, warnings>>

\* utils.py:408-412
BlankLine ==
    /\ ppc = "lines"
    /\ lidx <= Len(body)
    /\ Blank(body[lidx])
    /\ lidx' = lidx + 1
    /\ UNCHANGED <<plVars, commitment, cmVars, wrVars, mnVars, ppc, body,
                   attempts, attempt_start, left_behind, warnings, failure>>

\* utils.py:414-415 and the entry of _render_wrapped_text, utils.py:379-381
StartLine ==
    /\ ppc = "lines"
    /\ lidx <= Len(body)
    /\ ~Blank(body[lidx])
    /\ ppc' = "render"
    /\ attempts' = Append(attempts, Attempt(lidx, 12))
    /\ attempt_start' = Len(out)
    /\ wpc' = "words"
    /\ text' = body[lidx]
    /\ font_size' = 12
    /\ words' = Split(body[lidx])
    /\ widx' = 1
    /\ current_line' = <<>>
    /\ UNCHANGED <<plVars, commitment, cmVars, mnVars, available_width, out,
                   body, lidx, left_behind, warnings, failure>>

\* utils.py:415 returned, or utils.py:419 returned: on to the next line
LineDone ==
    /\ ppc = "render"
    /\ wpc = "done"
    /\ attempts' = Closed("ok")
    /\ ppc' = "lines"
    /\ wpc' = "idle"
    /\ lidx' = lidx + 1
    /\ UNCHANGED <<plVars, commitment, cmVars, mnVars, text, font_size,
                   available_width, words, widx, current_line, out, body,
                   attempt_start, left_behind, warnings, failure>>

\* utils.py:416-419: the call at size 12 raised, in the pass of the loop over
\* words it had come to or in the final multi_cell; what it had handed to
\* pdf.multi_cell stays in the document, and the line is rendered again from
\* its first word at size 10
RetrySmaller ==
    /\ ppc = "render"
    /\ wpc = "words"
    /\ font_size = 12
    /\ left_behind' = left_behind \cup (attempt_start + 1)..Len(out)
    /\ attempts' = Append(Closed("raised"), Attempt(lidx, 10))
    /\ attempt_start' = Len(out)
    /\ font_size' = 10
    /\ words' = Split(text)
    /\ widx' = 1
    /\ current_line' = <<>>
    /\ UNCHANGED <<plVars, commitment, cmVars, mnVars, wpc, text,
                   available_width, out, ppc, body, lidx, warnings, failure>>

\* utils.py:420-423: the call at size 10 raised too
SkipLine ==
    /\ ppc = "render"
    /\ wpc = "words"
    /\ font_size = 10
    /\ left_behind' = left_behind \cup (attempt_start + 1)..Len(out)
    /\ attempts' = Closed("raised")
    /\ warnings' = Append(warnings, lidx)
    /\ ppc' = "lines"
    /\ wpc' = "idle"
    /\ lidx' = lidx + 1
    /\ UNCHANGED <<plVars, commitment, cmVars, mnVars, text, font_size,
                   available_width, words, widx, current_line, out, body,
                   attempt_start, failure>>

\* utils.py:425
Output ==
    /\ ppc = "lines"
    /\ lidx > Len(body)
    /\ \/ /\ ppc' = "written"
          /\ failure' = failure
       \/ /\ ppc' = "failed"
          /\ failure' = "output"
    /\ UNCHANGED <<plVars, commitment, cmVars, wrVars, mnVars, body, lidx,
                   attempts, attempt_start, left_behind, warnings>>

NextPdf ==
    \/ RenderTitle
    \/ BlankLine
    \/ StartLine
    \/ RenderWord
    \/ RenderRest
    \/ LineDone
    \/ RetrySmaller
    \/ SkipLine
    \/ Output

SpecPdf == InitPdfRun /\ [][NextPdf]_vars

----------------------------------------------------------------------------
(* C13: layout failures of body lines *)

\* the lines of the body that are not skipped as blank
Printable == {i \in 1..Len(body) : ~Blank(body[i])}

\* the loop over the body has ended
LoopEnded == ppc = "written" \/ (ppc = "failed" /\ failure = "output")

\* every call of the wrapper is the first call for a line later than the one
\* before, at size 12, or the one retry at size 10 of the call just before it,
\* which raised; a call that raised at size 12 is followed by that retry; the
\* warnings are the lines whose retry raised, in order; once the loop has
\* ended every printable line has been attempted
BodyLinesHandled ==
    /\ \A k \in 1..Len(attempts) :
          LET a == attempts[k]
          IN /\ a.line \in Printable
             /\ \/ /\ a.size = 12
                   /\ k > 1 => attempts[k - 1].line < a.line
                   /\ k > 1 => attempts[k - 1].result # "running"
                   /\ k > 1 /\ attempts[k - 1].size = 12
                          => attempts[k - 1].result = "ok"
                \/ /\ a.size = 10
                   /\ k > 1
                   /\ attempts[k - 1] =
                          [line |-> a.line, size |-> 12, result |-> "raised"]
             /\ a.size = 12 /\ a.result = "raised" => k < Len(attempts)
    /\ \A i \in 1..Len(body) :
          Cardinality({k \in 1..Len(attempts) : attempts[k].line = i}) <= 2
    /\ LET dropped == {k \in 1..Len(attempts) :
                         attempts[k].size = 10 /\ attempts[k].result = "raised"}
       IN /\ Len(warnings) = Cardinality(dropped)
          /\ \A j \in 1..Len(warnings) :
                /\ \E k \in dropped : attempts[k].line = warnings[j]
                /\ j > 1 => warnings[j - 1] < warnings[j]
    /\ LoopEnded => {attempts[k].line : k \in 1..Len(attempts)} = Printable
    /\ ~ENABLED NextPdf => ppc \in {"written", "failed"}

\* C13: a layout failure on a body line never aborts the render: the line is
\* attempted at size 12, retried exactly once at size 10, and skipped with a
\* warning when the retry fails; all later lines are still processed in order
\* and the file is still written, so create_pdf_from_text fails only when the
\* destination cannot be written.
RenderFailsOnlyOnWrite ==
    /\ BodyLinesHandled
    /\ ppc = "failed" => failure = "output"

----------------------------------------------------------------------------
(* C14: what a failed attempt leaves in the document *)

\* C14: a body line that is dropped contributes no text to the document, and
\* a line that succeeds only on the retry contributes its text exactly once:
\* no cell handed to pdf.multi_cell by a call of the wrapper that raised is
\* in the output.
FailedAttemptsLeaveNoText ==
    \A k \in 1..Len(out) : k \notin left_behind

----------------------------------------------------------------------------
(* C15: a search that fails *)

\* s is an initial part of t
IsPrefix(s, t) == Len(s) <= Len(t) /\ SubSeq(t, 1, Len(s)) = s

\* C15: the four queries are issued in their declared order with 3 results
\* requested each; a search that fails adds no video, is not tried again and
\* is followed by the next query, so that all four are issued before the
\* deduplication starts; no step removes or reorders the videos that earlier
\* searches returned.
FailedSearchOnlyLosesItself ==
    [][/\ issued' # issued =>
             /\ Len(issued) < 4
             /\ issued' =
                   Append(issued,
                          [query |-> <<topic, SearchQueries(
                                       Difficulty(background))[Len(issued) + 1]>>,
                           max_results |-> 3])
       /\ pc' = "except" => issued' # issued /\ all_videos' = all_videos
       /\ pc = "except" =>
             /\ all_videos' = all_videos
             /\ issued' = issued
             /\ query' = query + 1
             /\ pc' = "search"
       /\ IsPrefix(all_videos, all_videos')
       /\ pc' = "assemble" => Len(issued') = 4
      ]_vars

\* the third search has failed after earlier searches returned videos
FailedSearchWitness ==
    /\ pc = "except"
    /\ Len(issued) = 3
    /\ Len(all_videos) >= 2

====
